---- MODULE Spec2Model ----
(***************************************************************************)
(* Model of zenodo_report.py: the row enrichment engine                    *)
(* update_xlsx_with_zenodo_links, its lookups, the email resolver and the  *)
(* report generator prepare_email_file.                                    *)
(*                                                                         *)
(* Text is a sequence of one-character strings, so that strip, lower,      *)
(* split, substring search and the DOI pattern are computed, not assumed.  *)
(* Python's None is the value None below; an unassigned local is Unbound.  *)
(* A workbook is a function from sheet name to a sheet: whether it exists, *)
(* the set of header names of its row 3, and its data rows (row 4 on),     *)
(* each a record of cell values addressed by header name.                  *)
(* workbook.save is modelled as succeeding (its except branch only logs).  *)
(***************************************************************************)
EXTENDS Integers, Sequences, FiniteSets, TLC

VARIABLES
    overwrite,   \* OVERWRITE_OPEN_ACCESS_LINK
    mem,         \* the workbook object update_xlsx_with_zenodo_links mutates
    disk,        \* the workbook file xlsx_file
    pc,          \* position in update_xlsx_with_zenodo_links
    si,          \* index into sheet_names of the sheet being processed
    ri,          \* index of the data row being processed (1 is sheet row 4)
    doiVar,      \* the local variable doi of update_xlsx_with_zenodo_links
    last,        \* what the engine did for the row it handled last (its log)
    digest,      \* authors_without_zenodo_entries.txt: written, and its groups
    run,         \* number of the invocation of the engine (1 or 2)
    remote,      \* the answers the remote services gave so far, by query
    first,       \* the workbook file as the first invocation left it
    meta,        \* resolver check: the parsed metadata handed to the resolver
    emailOut     \* resolver check: what extract_email_from_ieee_json returned

vars == <<overwrite, mem, disk, pc, si, ri, doiVar, last, digest, run, remote,
          first, meta, emailOut>>

(***************************************************************************)
(* Bounds of the model.                                                    *)
(***************************************************************************)
MaxRows == 3        \* data rows in the workbook of Spec, over both sheets
MaxAuthors == 2     \* authors in a metadata object of SpecEmail

(***************************************************************************)
(* Python values and text helpers.                                         *)
(***************************************************************************)
None == <<"None">>
Unbound == <<"Unbound">>

Truthy(v) == v # None /\ v # <<>>

Whitespace == {" "}
Digits == <<"0","1","2","3","4","5","6","7","8","9">>
UpperAlpha == <<"A","B","C","D","E","F","G","H","I","J","K","L","M","N","O","P","Q","R","S","T","U","V","W","X","Y","Z">>
LowerAlpha == <<"a","b","c","d","e","f","g","h","i","j","k","l","m","n","o","p","q","r","s","t","u","v","w","x","y","z">>

\* str(value) of a cell value: None prints as the text None
NoneText == <<"N","o","n","e">>
Str(v) == IF v = None THEN NoneText ELSE v

RECURSIVE LStrip(_)
LStrip(s) == IF s # <<>> /\ Head(s) \in Whitespace THEN LStrip(Tail(s)) ELSE s

RECURSIVE RStrip(_)
RStrip(s) ==
    IF s # <<>> /\ s[Len(s)] \in Whitespace
    THEN RStrip(SubSeq(s, 1, Len(s) - 1)) ELSE s

\* str.strip()
Strip(s) == RStrip(LStrip(s))

\* str.isdigit()
IsDigit(s) == s # <<>> /\ \A i \in 1..Len(s) : \E d \in 1..10 : Digits[d] = s[i]

LowerChar(c) ==
    IF \E i \in 1..26 : UpperAlpha[i] = c
    THEN LowerAlpha[CHOOSE i \in 1..26 : UpperAlpha[i] = c]
    ELSE c

\* str.lower()
Lower(s) == [i \in 1..Len(s) |-> LowerChar(s[i])]

\* sub in s
Contains(s, sub) ==
    \E i \in 1..(Len(s) - Len(sub) + 1) : SubSeq(s, i, i + Len(sub) - 1) = sub

\* the maximal run of non-whitespace characters at the start of s
RECURSIVE Run(_)
Run(s) ==
    IF s = <<>> \/ Head(s) \in Whitespace THEN <<>>
    ELSE <<Head(s)>> \o Run(Tail(s))

\* str.replace(" ", "")
RECURSIVE RemoveSpaces(_)
RemoveSpaces(s) ==
    IF s = <<>> THEN <<>>
    ELSE IF Head(s) = " " THEN RemoveSpaces(Tail(s))
    ELSE <<Head(s)>> \o RemoveSpaces(Tail(s))

\* str(n) of a non-negative integer, as in an f-string
RECURSIVE ToStr(_)
ToStr(n) == IF n < 10 THEN <<Digits[n + 1]>> ELSE ToStr(n \div 10) \o <<Digits[(n % 10) + 1]>>

ZenodoPrefix == <<"h","t","t","p","s",":","/","/","z","e","n","o","d","o",".","o","r","g","/","r","e","c","o","r","d","s","/">>
DoiPrefix == <<"h","t","t","p","s",":","/","/","d","o","i",".","o","r","g","/">>
IeeeMarker == <<"i","e","e","e",".","o","r","g">>
DomainMarker == <<"u","c","y",".","a","c",".","c","y">>
InstitutionName == <<"U","n","i","v","e","r","s","i","t","y"," ","o","f"," ","C","y","p","r","u","s">>
AtDomain == <<"@","u","c","y",".","a","c",".","c","y">>
NoHeaderEcho == <<"N","O",".">>
DoiToken == <<"D","O","I">>
Thomas == <<"T","h","o","m","a","s">>
Parisini == <<"P","a","r","i","s","i","n","i">>
Astolfi == <<"A","s","t","o","l","f","i">>
ParisiniEmail == <<"p","a","r","i","s","i","n","i",".","t","h","o","m","a","s","@","u","c","y",".","a","c",".","c","y">>
AstolfiEmail == <<"a","s","t","o","l","f","i",".","a","l","e","s","s","a","n","d","r","o","@","u","c","y",".","a","c",".","c","y">>

\* f"https://zenodo.org/records/{recid}"
ZenodoLink(recid) == ZenodoPrefix \o ToStr(recid)
\* f"https://doi.org/{doi}" and f"https://doi.org/{recid}"
DoiLink(doi) == DoiPrefix \o doi

(***************************************************************************)
(* extract_doi_from_bibliographic_data: re.search of DOI\s*:\s*([\S]+),    *)
(* leftmost match, group 1 with spaces removed, None when nothing matches. *)
(***************************************************************************)
\* the text matched by ([\S]+) when the pattern matches at position i, else <<>>
MatchAt(s, i) ==
    IF i + 2 > Len(s) \/ SubSeq(s, i, i + 2) # DoiToken THEN <<>>
    ELSE LET a == LStrip(SubSeq(s, i + 3, Len(s)))
         IN  IF a = <<>> \/ Head(a) # ":" THEN <<>>
             ELSE Run(LStrip(Tail(a)))

extract_doi_from_bibliographic_data(bibliographic_data) ==
    LET at == {i \in 1..Len(bibliographic_data) : MatchAt(bibliographic_data, i) # <<>>}
    IN  IF at = {} THEN None
        ELSE LET i == CHOOSE j \in at : \A k \in at : j <= k
             IN  RemoveSpaces(MatchAt(bibliographic_data, i))

(***************************************************************************)
(* The lookups.  A response is what requests.get gave: reach is FALSE when *)
(* the service could not be reached (requests.get raises), else status is  *)
(* the HTTP status and total/hits are hits.total and the ids of hits.hits. *)
(* A recid of 0 stands for None (both are falsy in "if recid:").           *)
(***************************************************************************)
NoRecid == 0

search_zenodo_by_title_first_of_many(response) ==
    IF ~response.reach THEN [raised |-> TRUE, recid |-> NoRecid, message |-> "raised"]
    ELSE IF response.status = 200 /\ response.total >= 1
         THEN [raised |-> FALSE, recid |-> response.hits[1], message |-> "None"]
         ELSE [raised |-> FALSE, recid |-> NoRecid, message |-> "No match found"]

search_zenodo_by_title(response) ==
    IF ~response.reach THEN [raised |-> TRUE, recid |-> NoRecid, message |-> "raised"]
    ELSE IF response.status = 200 /\ response.total = 1
         THEN [raised |-> FALSE, recid |-> response.hits[1], message |-> "None"]
    ELSE IF response.status = 200 /\ response.total > 1
         THEN [raised |-> FALSE, recid |-> NoRecid, message |-> "Multiple matches found"]
         ELSE [raised |-> FALSE, recid |-> NoRecid, message |-> "No match found"]

search_zenodo_by_doi(response) ==
    IF ~response.reach THEN [raised |-> TRUE, recid |-> NoRecid]
    ELSE IF response.status = 200 /\ response.total > 0
         THEN [raised |-> FALSE, recid |-> response.hits[1]]
         ELSE [raised |-> FALSE, recid |-> NoRecid]

(***************************************************************************)
(* The email resolver.  Parsed metadata is a record: keys is the set of    *)
(* its top-level keys and authors the list under the key "authors".  An    *)
(* author is a record: keys is the set of the fields it has, out of        *)
(* firstName, lastName and affiliation (a list of texts).                  *)
(* A result is [raised, email]: raised when a KeyError or IndexError       *)
(* leaves the function, else email is the returned text or None.           *)
(***************************************************************************)
Returned(email) == [raised |-> FALSE, email |-> email]
Raised == [raised |-> TRUE, email |-> None]

\* json.get("authors", [])
AuthorsOf(json) == IF "authors" \in json.keys THEN json.authors ELSE <<>>
\* author.get("affiliation", [])
AffiliationsOf(author) ==
    IF "affiliation" \in author.keys THEN author.affiliation ELSE <<>>

\* index of the first author one of whose affiliations contains marker, else 0
FirstAffiliated(authors, marker) ==
    LET hit == {i \in 1..Len(authors) :
                  \E k \in 1..Len(AffiliationsOf(authors[i])) :
                      Contains(AffiliationsOf(authors[i])[k], marker)}
    IN  IF hit = {} THEN 0 ELSE CHOOSE i \in hit : \A j \in hit : i <= j

\* name.split()[0]; <<>> when split() is empty (then [0] raises IndexError)
FirstToken(name) == Run(LStrip(name))

\* author['firstName'] and author['lastName'] both present
Named(author) == "firstName" \in author.keys /\ "lastName" \in author.keys

\* lines 365-371: the loop over the hardcoded exceptions, from author i on
RECURSIVE AuthorExceptions(_, _)
AuthorExceptions(authors, i) ==
    IF i > Len(authors) THEN Returned(None)
    ELSE LET author == authors[i]
         IN  IF ~Named(author) THEN Raised
             ELSE IF author.firstName = Thomas /\ author.lastName = Parisini
                  THEN Returned(ParisiniEmail)
             ELSE IF author.lastName = Astolfi THEN Returned(AstolfiEmail)
             ELSE AuthorExceptions(authors, i + 1)

extract_email_from_ieee_json(json) ==
    LET authors == AuthorsOf(json)
        d == FirstAffiliated(authors, DomainMarker)
        u == FirstAffiliated(authors, InstitutionName)
    IN  IF d > 0
        THEN IF ~Named(authors[d]) THEN Raised
             ELSE Returned(Lower(authors[d].lastName) \o <<".">>
                           \o Lower(authors[d].firstName) \o AtDomain)
        ELSE IF u > 0
        THEN IF ~Named(authors[u])
                \/ FirstToken(authors[u].firstName) = <<>>
                \/ FirstToken(authors[u].lastName) = <<>>
             THEN Raised
             ELSE Returned(Lower(FirstToken(authors[u].lastName)) \o <<".">>
                           \o Lower(FirstToken(authors[u].firstName)) \o AtDomain)
        ELSE AuthorExceptions(authors, 1)

\* fetch_ieee_metadata with extract_ieee_json: the page is what requests.get
\* gave (reach, status) and what the pattern and json.loads make of its text:
\* marker says the pattern matched, parses that json.loads succeeded, json is
\* the parsed object.  Every exception (unreachable page, json.loads failing)
\* and every status but 200 leaves json None.
NoJson == [none |-> TRUE]

fetch_ieee_metadata(page) ==
    IF ~page.reach THEN NoJson
    ELSE IF page.status # 200 THEN NoJson
    ELSE IF ~page.marker THEN NoJson
    ELSE IF ~page.parses THEN NoJson
    ELSE page.json

extract_ucy_author_email(link, page) ==
    IF Contains(link, IeeeMarker)
    THEN LET json == fetch_ieee_metadata(page)
         IN  IF json = NoJson \/ json.keys = {} THEN Returned(None)
             ELSE LET e == extract_email_from_ieee_json(json)
                  IN  IF e.raised THEN Raised
                      ELSE IF e.email # None THEN e
                      ELSE IF "Thomas Parisini" \in json.keys THEN Returned(ParisiniEmail)
                      ELSE IF "Alessandro Astolfi" \in json.keys THEN Returned(AstolfiEmail)
                      ELSE Returned(None)
    ELSE Returned(None)

(***************************************************************************)
(* The answers the remote services may give.                               *)
(***************************************************************************)
Http(status, total, hits) ==
    [reach |-> TRUE, status |-> status, total |-> total, hits |-> hits]
Unreachable == [reach |-> FALSE, status |-> 0, total |-> 0, hits |-> <<>>]

\* answers to the title search and to the DOI search
TitleResponses ==
    {Unreachable, Http(500, 0, <<>>), Http(200, 0, <<>>), Http(200, 1, <<7>>),
     Http(200, 2, <<7, 8>>)}
DoiResponses ==
    {Unreachable, Http(500, 0, <<>>), Http(200, 0, <<>>), Http(200, 1, <<5>>),
     Http(200, 2, <<5, 6>>)}

Author(fn, ln, affiliation) ==
    [keys |-> {"firstName", "lastName", "affiliation"}, firstName |-> fn,
     lastName |-> ln, affiliation |-> affiliation]
Metadata(authors) == [keys |-> {"authors", "title"}, authors |-> authors]

Maria == <<"M","a","r","i","a">>
Louca == <<"L","o","u","c","a">>
AffUcy == <<"K","I","O","S",","," ","u","c","y",".","a","c",".","c","y">>
AffOther == <<"M","I","T">>
AffName == <<"K","I","O","S",","," ","U","n","i","v","e","r","s","i","t","y"," ","o","f"," ","C","y","p","r","u","s">>

PageOf(json) == [reach |-> TRUE, status |-> 200, marker |-> TRUE, parses |-> TRUE, json |-> json]
NoPageJson == [keys |-> {}, authors |-> <<>>]

\* answers to the request for the publisher page
Pages ==
    {[reach |-> FALSE, status |-> 0, marker |-> FALSE, parses |-> FALSE, json |-> NoPageJson],
     [reach |-> TRUE, status |-> 404, marker |-> FALSE, parses |-> FALSE, json |-> NoPageJson],
     [reach |-> TRUE, status |-> 200, marker |-> FALSE, parses |-> FALSE, json |-> NoPageJson],
     [reach |-> TRUE, status |-> 200, marker |-> TRUE, parses |-> FALSE, json |-> NoPageJson],
     PageOf(NoPageJson),
     PageOf(Metadata(<<Author(Maria, Louca, <<AffUcy>>)>>)),
     PageOf(Metadata(<<Author(Maria, Louca, <<AffOther>>)>>)),
     PageOf(Metadata(<<[keys |-> {"affiliation"}, firstName |-> <<>>, lastName |-> <<>>,
                        affiliation |-> <<AffUcy>>]>>)),
     PageOf(Metadata(<<Author(<<>>, <<>>, <<AffName>>)>>))}

(***************************************************************************)
(* The row body of update_xlsx_with_zenodo_links (lines 102-195), from a   *)
(* row's cells to the cells it leaves.  A row is a record of cell values:  *)
(* no, title, bib, oal, doi, lat, email are the cells under "NO.",         *)
(* "TITLE ", "BIBLIOGRAPHIC DATA", "Open Access link", "DOI",              *)
(* "link_as_text", "author_email"; link and hyper are the value and the    *)
(* hyperlink target of the cell under "LINK" (None when there is none).    *)
(* Each operator gives the set of ways the code can go on, one for every   *)
(* answer a remote call it makes can get.  An outcome says how the body    *)
(* was left (kind), the cells, the local doi, and which remote calls were  *)
(* made with which answer.                                                 *)
(***************************************************************************)
NoResp == [none |-> TRUE]

Outcome(kind, row, dv, titleResp, doiQuery, doiResp) ==
    [kind |-> kind, row |-> row, doiVar |-> dv, titleResp |-> titleResp,
     doiQuery |-> doiQuery, doiResp |-> doiResp, emailLink |-> None, page |-> NoResp]

\* lines 110, 116, 117
EntryId(row) == Strip(Str(row.no))
TitleOf(row) == IF Truthy(row.title) THEN Strip(Str(row.title)) ELSE <<>>
BibOf(row) == IF Truthy(row.bib) THEN Strip(Str(row.bib)) ELSE <<>>

\* line 113
SkipsByNo(row) == ~IsDigit(EntryId(row)) /\ EntryId(row) # NoHeaderEcho
\* line 120
AllPopulated(row) == Truthy(row.oal) /\ Truthy(row.doi) /\ Truthy(row.lat)

\* lines 131-136
DeriveLink(row, headers) ==
    IF row.lat = None /\ "LINK" \in headers
    THEN IF row.hyper # None THEN [row EXCEPT !.lat = row.hyper]
         ELSE [row EXCEPT !.lat = IF Truthy(row.link) THEN row.link ELSE <<>>]
    ELSE row

\* the page is requested only for a link with the publisher's marker
PagesFor(link) == IF Contains(link, IeeeMarker) THEN Pages ELSE {NoResp}

\* lines 192-195, ending the body m of a row: kind "save" reaches line 199
ResolveEmail(m) ==
    IF ~Truthy(m.row.email) /\ Truthy(m.row.lat)
    THEN {LET e == extract_ucy_author_email(m.row.lat, page)
          IN  [m EXCEPT !.kind = IF e.raised THEN "raised" ELSE "save",
                        !.row.email = IF ~e.raised /\ Truthy(e.email) THEN e.email ELSE @,
                        !.emailLink = m.row.lat,
                        !.page = page] : page \in PagesFor(m.row.lat)}
    ELSE {[m EXCEPT !.kind = "save"]}

\* lines 143-158: the title search gave recid
TitleFound(row, bibliographic_data, dv, recid, tr) ==
    LET doi == IF bibliographic_data # <<>>
               THEN extract_doi_from_bibliographic_data(bibliographic_data) ELSE dv
    IN  IF doi = Unbound
        THEN Outcome("raised", [row EXCEPT !.oal = ZenodoLink(recid)], dv, tr, None, NoResp)
        ELSE Outcome("go", [row EXCEPT !.oal = ZenodoLink(recid),
                                       !.doi = IF Truthy(doi) THEN DoiLink(doi)
                                               ELSE DoiLink(ToStr(recid))],
                     doi, tr, None, NoResp)

\* lines 165-173: the DOI search for doi, answered by dr
DoiSearched(row, doi, tr, dr) ==
    LET d == search_zenodo_by_doi(dr)
    IN  IF d.raised THEN Outcome("raised", row, doi, tr, doi, dr)
        ELSE IF d.recid # NoRecid
        THEN Outcome("go", [row EXCEPT !.oal = ZenodoLink(d.recid), !.doi = DoiLink(doi)],
                     doi, tr, doi, dr)
        ELSE Outcome("go", [row EXCEPT !.doi = DoiLink(doi)], doi, tr, doi, dr)

\* lines 159-177: the title search gave nothing
TitleNotFound(row, bibliographic_data, dv, tr) ==
    IF bibliographic_data # <<>>
    THEN LET doi == extract_doi_from_bibliographic_data(bibliographic_data)
         IN  IF Truthy(doi)
             THEN {DoiSearched(row, doi, tr, dr) : dr \in DoiResponses}
             ELSE {Outcome("go", row, doi, tr, None, NoResp)}
    ELSE {Outcome("go", row, dv, tr, None, NoResp)}

\* lines 141-177: the title search, answered by tr
TitleSearched(row, bibliographic_data, dv, tr) ==
    LET t == search_zenodo_by_title(tr)
    IN  IF t.raised THEN {Outcome("raised", row, dv, tr, None, NoResp)}
        ELSE IF t.recid # NoRecid
        THEN {TitleFound(row, bibliographic_data, dv, t.recid, tr)}
        ELSE TitleNotFound(row, bibliographic_data, dv, tr)

\* lines 178-189: the link is populated and not to be overwritten
LinkPopulated(row, bibliographic_data, dv) ==
    IF row.doi = None /\ bibliographic_data # <<>>
    THEN LET doi == extract_doi_from_bibliographic_data(bibliographic_data)
         IN  Outcome("go", IF Truthy(doi) THEN [row EXCEPT !.doi = DoiLink(doi)] ELSE row,
                     doi, NoResp, None, NoResp)
    ELSE Outcome("go", row, dv, NoResp, None, NoResp)

\* lines 138-189
Enrich(row, bibliographic_data, dv, ow) ==
    IF ~Truthy(row.oal) \/ ow
    THEN UNION {TitleSearched(row, bibliographic_data, dv, tr) : tr \in TitleResponses}
    ELSE {LinkPopulated(row, bibliographic_data, dv)}

\* lines 120-122 if the row went on to the email resolution of lines 192-195
ShortCircuit_resolving_email(row, dv) ==
    ResolveEmail(Outcome("go", row, dv, NoResp, None, NoResp))

\* lines 120-122: continue
ShortCircuit(row, dv) == {Outcome("skip", row, dv, NoResp, None, NoResp)}

\* lines 102-195: dv is the local doi before the row, ow the overwrite flag
RowBody(row, headers, dv, ow) ==
    IF SkipsByNo(row) THEN {Outcome("skip", row, dv, NoResp, None, NoResp)}
    ELSE IF AllPopulated(row) THEN ShortCircuit(row, dv)
    ELSE IF TitleOf(row) = <<>> THEN {Outcome("skip", row, dv, NoResp, None, NoResp)}
    ELSE UNION {IF m.kind = "raised" THEN {m} ELSE ResolveEmail(m) :
                   m \in Enrich(DeriveLink(row, headers), BibOf(row), dv, ow)}

(***************************************************************************)
(* The workbook and the run configuration.                                 *)
(***************************************************************************)
\* sheet_names of the run (line 394), cut to its first two sheets
sheet_names == <<"YEAR 2024", "YEAR 2023">>

RequiredHeaders == {"NO.", "TITLE ", "BIBLIOGRAPHIC DATA"}
OptionalHeaders == {"Open Access link", "DOI", "link_as_text", "author_email"}

SheetOf(wb, s) == wb[sheet_names[s]]
RowsOf(wb, s) == SheetOf(wb, s).rows

(***************************************************************************)
(* prepare_email_file (lines 212-278) on the workbook it loads.  A paper   *)
(* carries the texts written to the digest and src, the sheet and row it   *)
(* was read from.                                                          *)
(***************************************************************************)
\* str(cell.value).strip() if cell.value else ""
CellText(v) == IF Truthy(v) THEN Strip(Str(v)) ELSE <<>>

\* line 253
Listed(row) == CellText(row.oal) = <<>> /\ CellText(row.email) # <<>>

\* lines 223-232: the sheets whose rows are scanned
Scanned(wb, s) ==
    /\ SheetOf(wb, s).exists
    /\ {"TITLE ", "Open Access link", "author_email"} \subseteq SheetOf(wb, s).headers

\* line 234: the rows scanned, in order, as <<sheet, row>>
RECURSIVE ScanFrom(_, _)
ScanFrom(wb, s) ==
    IF s > Len(sheet_names) THEN <<>>
    ELSE (IF Scanned(wb, s) THEN [i \in 1..Len(RowsOf(wb, s)) |-> <<s, i>>] ELSE <<>>)
         \o ScanFrom(wb, s + 1)

\* lines 254-263: author_papers, a dict, kept in insertion order
AddPaper(author_papers, author, paper) ==
    IF \E i \in 1..Len(author_papers) : author_papers[i].author = author
    THEN LET i == CHOOSE j \in 1..Len(author_papers) : author_papers[j].author = author
         IN  [author_papers EXCEPT ![i].papers = Append(@, paper)]
    ELSE Append(author_papers, [author |-> author, papers |-> <<paper>>])

RECURSIVE Collect(_, _, _, _)
Collect(wb, scan, k, author_papers) ==
    IF k > Len(scan) THEN author_papers
    ELSE LET row == RowsOf(wb, scan[k][1])[scan[k][2]]
             paper == [title |-> CellText(row.title), doi |-> CellText(row.doi),
                       link |-> CellText(row.lat), src |-> scan[k]]
         IN  Collect(wb, scan, k + 1,
                     IF Listed(row)
                     THEN AddPaper(author_papers, CellText(row.email), paper)
                     ELSE author_papers)

\* line 237 raises KeyError at the first row of a scanned sheet that has no
\* "link_as_text" header: nothing is written then
prepare_email_file(wb) ==
    IF \E s \in 1..Len(sheet_names) :
          Scanned(wb, s) /\ RowsOf(wb, s) # <<>> /\ "link_as_text" \notin SheetOf(wb, s).headers
    THEN [raised |-> TRUE, written |-> FALSE, groups |-> <<>>]
    ELSE [raised |-> FALSE, written |-> TRUE,
          groups |-> Collect(wb, ScanFrom(wb, 1), 1, <<>>)]

(***************************************************************************)
(* The inputs: cell texts, rows, sheets, workbooks and remote answers.     *)
(***************************************************************************)
TitleA == <<"T">>
TitleB == <<"U">>
TitleC == <<"V">>
BibPlain == <<"r","e","f">>
BibDoiA == <<"r"," ","D","O","I",":"," ","1","0",".","1","/","a"," ","p">>
BibDoiB == <<"D","O","I"," ",":","1","0",".","2","/","b">>
OldLink == <<"o","l","d">>
OldDoi == <<"d","o","i",":","x">>
OldEmail == <<"a","@","b">>
IeeeLink == <<"i","e","e","e",".","o","r","g","/","1">>
IeeeTarget == <<"i","e","e","e",".","o","r","g","/","2">>
OtherLink == <<"a","c","m",".","o","r","g">>

Row(no, title, bib, oal, doi, lat, email, link, hyper) ==
    [no |-> no, title |-> title, bib |-> bib, oal |-> oal, doi |-> doi,
     lat |-> lat, email |-> email, link |-> link, hyper |-> hyper]

\* numbered rows with a title: every combination of the cells the engine tests
NumberedRows ==
    {Row(<<"7">>, TitleA, b, o, d, l, e, None, None) :
        b \in {None, BibPlain, BibDoiA}, o \in {None, OldLink}, d \in {None, OldDoi},
        l \in {None, IeeeLink}, e \in {None, OldEmail}}

\* rows with a "LINK" cell and no link_as_text yet
LinkRows ==
    {Row(<<"7">>, TitleA, BibDoiA, None, None, None, None, k[1], k[2]) :
        k \in {<<None, None>>, <<IeeeLink, None>>, <<OtherLink, IeeeTarget>>}}

\* a section separator, a row without title, an echo of the header row
OtherRows ==
    {Row(<<"a","b","s","t","r","a","c","t">>, TitleA, BibDoiA, None, None, IeeeLink, e, None, None) :
        e \in {None, OldEmail}}
    \cup {Row(<<" ","8"," ">>, None, BibDoiA, None, None, IeeeLink, None, None, None),
          Row(NoHeaderEcho, TitleA, BibDoiA, None, None, None, None, None, None)}

AllRows == NumberedRows \cup LinkRows \cup OtherRows

\* the rows of workbooks with several rows: one row for each way through the
\* row body, so that rows meet in every order
CoreRows ==
    {Row(<<"7">>, TitleA, BibDoiA, None, None, None, None, None, None),
     Row(<<"7">>, TitleA, None, None, None, None, None, None, None),
     Row(<<"7">>, TitleA, BibPlain, None, None, None, None, None, None),
     Row(<<"7">>, TitleA, None, None, OldDoi, IeeeLink, None, None, None),
     Row(<<"7">>, TitleA, BibDoiA, OldLink, OldDoi, IeeeLink, None, None, None),
     Row(<<"7">>, TitleA, BibDoiA, OldLink, None, None, OldEmail, None, None),
     Row(<<"7">>, TitleA, BibDoiA, None, None, None, None, IeeeLink, None),
     Row(<<"a","b","s","t","r","a","c","t">>, TitleA, BibDoiA, None, None, IeeeLink, OldEmail, None, None),
     Row(<<" ","8"," ">>, None, BibDoiA, None, None, IeeeLink, None, None, None)}

\* the rows of workbooks with three rows or more: a row to search for, a row
\* with every field populated, a section separator
WideRows ==
    {Row(<<"7">>, TitleA, BibDoiA, None, None, None, None, None, None),
     Row(<<"7">>, TitleA, BibDoiA, OldLink, OldDoi, IeeeLink, None, None, None),
     Row(<<"a","b","s","t","r","a","c","t">>, TitleA, BibDoiA, None, None, IeeeLink, OldEmail, None, None)}

\* rows of a sheet the engine skips for its headers: what the report reads
UnnumberedRows ==
    {Row(None, TitleA, None, o, None, None, e, None, None) :
        o \in {None, OldLink}, e \in {None, OldEmail}}

\* the header rows a sheet may have
HeaderSets ==
    {RequiredHeaders,
     RequiredHeaders \cup OptionalHeaders,
     RequiredHeaders \cup OptionalHeaders \cup {"LINK"},
     {"TITLE ", "Open Access link", "author_email", "link_as_text"},
     {"TITLE ", "Open Access link", "author_email"}}

\* a cell under a header the sheet does not have is empty
Fits(row, headers) ==
    /\ "NO." \notin headers => row.no = None
    /\ "BIBLIOGRAPHIC DATA" \notin headers => row.bib = None
    /\ "Open Access link" \notin headers => row.oal = None
    /\ "DOI" \notin headers => row.doi = None
    /\ "link_as_text" \notin headers => row.lat = None
    /\ "author_email" \notin headers => row.email = None
    /\ "LINK" \notin headers => row.link = None /\ row.hyper = None

\* the header rows of the sheets of a workbook of t rows
HeadersFor(t) ==
    IF t <= 2 THEN HeaderSets ELSE {RequiredHeaders, RequiredHeaders \cup OptionalHeaders}

\* the rows of a sheet with these headers, in a workbook of t rows
RowsFor(headers, t) ==
    {r \in (IF t <= 1 THEN AllRows \cup UnnumberedRows
            ELSE IF t = 2 THEN CoreRows \cup UnnumberedRows
            ELSE WideRows) : Fits(r, headers)}

AbsentSheet == [exists |-> FALSE, headers |-> {}, rows |-> <<>>]

\* a workbook of the two sheets the program opens
TwoSheets(a, b) ==
    [n \in {sheet_names[1], sheet_names[2]} |-> IF n = sheet_names[1] THEN a ELSE b]

\* the sheets with n data rows, in a workbook of t rows
SheetsWith(n, t) ==
    (IF n = 0 THEN {AbsentSheet} ELSE {})
    \cup UNION {{[exists |-> TRUE, headers |-> h, rows |-> rs] :
                    rs \in [1..n -> RowsFor(h, t)]} : h \in HeadersFor(t)}

(***************************************************************************)
(* update_xlsx_with_zenodo_links as a state machine.                       *)
(***************************************************************************)
NoLast ==
    [sheet |-> 0, row |-> 0, kind |-> "none", pre |-> Row(None, None, None, None, None, None, None, None, None),
     titleResp |-> NoResp, doiQuery |-> None, doiResp |-> NoResp, emailLink |-> None,
     page |-> NoResp]

NoDigest == [written |-> FALSE, groups |-> <<>>]
NoMeta == [keys |-> {}, authors |-> <<>>]
NoOut == [raised |-> FALSE, email |-> None, applied |-> FALSE]

Start(wb, ow, recording, at) ==
    /\ overwrite = ow
    /\ disk = wb
    /\ mem = wb
    /\ first = wb
    /\ pc = at
    /\ si = 0
    /\ ri = 0
    /\ doiVar = Unbound
    /\ last = NoLast
    /\ digest = NoDigest
    /\ run = 1
    /\ remote = [on |-> recording, seen |-> {}]
    /\ meta = NoMeta
    /\ emailOut = NoOut

Init ==
    \E t \in 0..MaxRows : \E k \in 0..t :
    \E a \in SheetsWith(k, t), b \in SheetsWith(t - k, t), ow \in BOOLEAN :
        Start(TwoSheets(a, b), ow, FALSE, "load")

\* lines 66-67: openpyxl.load_workbook
Load ==
    /\ pc = "load"
    /\ mem' = disk
    /\ pc' = "sheet"
    /\ si' = 1
    /\ UNCHANGED <<overwrite, disk, ri, doiVar, last, digest, run, remote, first, meta, emailOut>>

\* lines 68-70: the workbook does not load, the function returns
LoadFails ==
    /\ pc = "load"
    /\ pc' = "done"
    /\ UNCHANGED <<overwrite, mem, disk, si, ri, doiVar, last, digest, run, remote, first, meta, emailOut>>

\* lines 73-75
SheetNotFound ==
    /\ pc = "sheet"
    /\ si <= Len(sheet_names)
    /\ ~SheetOf(mem, si).exists
    /\ si' = si + 1
    /\ UNCHANGED <<overwrite, mem, disk, pc, ri, doiVar, last, digest, run, remote, first, meta, emailOut>>

\* lines 80-83
MissingHeaders ==
    /\ pc = "sheet"
    /\ si <= Len(sheet_names)
    /\ SheetOf(mem, si).exists
    /\ ~(RequiredHeaders \subseteq SheetOf(mem, si).headers)
    /\ si' = si + 1
    /\ UNCHANGED <<overwrite, mem, disk, pc, ri, doiVar, last, digest, run, remote, first, meta, emailOut>>

\* lines 85-99: the header cells of the four columns are created in memory
BeginSheet ==
    /\ pc = "sheet"
    /\ si <= Len(sheet_names)
    /\ SheetOf(mem, si).exists
    /\ RequiredHeaders \subseteq SheetOf(mem, si).headers
    /\ mem' = [mem EXCEPT ![sheet_names[si]].headers = @ \cup OptionalHeaders]
    /\ pc' = "row"
    /\ ri' = 1
    /\ UNCHANGED <<overwrite, disk, si, doiVar, last, digest, run, remote, first, meta, emailOut>>

\* the answers must be those already given to the same query
Agrees(query, response) ==
    remote.on => \A e \in remote.seen : e.q = query => e.r = response

\* the queries the row body made, with their answers
Asked(row, out) ==
    (IF out.titleResp # NoResp
     THEN {[q |-> <<"title", TitleOf(row)>>, r |-> out.titleResp]} ELSE {})
    \cup (IF out.doiQuery # None
          THEN {[q |-> <<"doi", out.doiQuery>>, r |-> out.doiResp]} ELSE {})
    \cup (IF out.page # NoResp
          THEN {[q |-> <<"page", out.emailLink>>, r |-> out.page]} ELSE {})

\* lines 101-195 for row ri of sheet si, leaving the body as kind says
RowStep(kind) ==
    /\ pc = "row"
    /\ ri <= Len(RowsOf(mem, si))
    /\ \E row \in {RowsOf(mem, si)[ri]} :
       \E out \in RowBody(row, SheetOf(mem, si).headers, doiVar, overwrite) :
       \E asked \in {Asked(row, out)} :
          /\ out.kind = kind
          /\ \A a \in asked : Agrees(a.q, a.r)
          /\ mem' = [mem EXCEPT ![sheet_names[si]].rows[ri] = out.row]
          /\ doiVar' = out.doiVar
          /\ last' = [sheet |-> si, row |-> ri, kind |-> out.kind, pre |-> row,
                      titleResp |-> out.titleResp, doiQuery |-> out.doiQuery,
                      doiResp |-> out.doiResp, emailLink |-> out.emailLink,
                      page |-> out.page]
          /\ remote' = IF remote.on THEN [remote EXCEPT !.seen = @ \cup asked] ELSE remote
    /\ UNCHANGED <<overwrite, disk, si, digest, run, first, meta, emailOut>>

\* lines 113-114, 120-122, 124-126: continue, past the save of line 199
SkipRow ==
    /\ RowStep("skip")
    /\ pc' = "row"
    /\ ri' = ri + 1

\* lines 128-195: the row is enriched and the save of line 199 is reached
EnrichRow ==
    /\ RowStep("save")
    /\ pc' = "save"
    /\ ri' = ri

\* an exception leaves the row body and update_xlsx_with_zenodo_links
RowRaises ==
    /\ RowStep("raised")
    /\ pc' = "raised"
    /\ ri' = ri

\* lines 198-202 without the call of workbook.save
SaveRow_without_saving ==
    /\ pc = "save"
    /\ pc' = "row"
    /\ ri' = ri + 1
    /\ last' = NoLast
    /\ UNCHANGED <<overwrite, mem, disk, si, doiVar, digest, run, remote, first, meta, emailOut>>

\* lines 198-202: workbook.save after the row
SaveRow ==
    /\ pc = "save"
    /\ disk' = mem
    /\ pc' = "row"
    /\ ri' = ri + 1
    /\ last' = NoLast
    /\ UNCHANGED <<overwrite, mem, si, doiVar, digest, run, remote, first, meta, emailOut>>

\* line 101: the rows of the sheet are exhausted
EndSheet ==
    /\ pc = "row"
    /\ ri > Len(RowsOf(mem, si))
    /\ pc' = "sheet"
    /\ si' = si + 1
    /\ UNCHANGED <<overwrite, mem, disk, ri, doiVar, last, digest, run, remote, first, meta, emailOut>>

\* lines 204-209: workbook.save after the last sheet
FinalSave ==
    /\ pc = "sheet"
    /\ si > Len(sheet_names)
    /\ disk' = mem
    /\ pc' = "report"
    /\ last' = NoLast
    /\ UNCHANGED <<overwrite, mem, si, ri, doiVar, digest, run, remote, first, meta, emailOut>>

\* lines 214-218: the report cannot load the workbook and returns
ReportLoadFails ==
    /\ pc = "report"
    /\ pc' = "done"
    /\ UNCHANGED <<overwrite, mem, disk, si, ri, doiVar, last, digest, run, remote, first, meta, emailOut>>

\* lines 220-263: KeyError at line 237
ReportRaises ==
    /\ pc = "report"
    /\ prepare_email_file(disk).raised
    /\ pc' = "raised"
    /\ UNCHANGED <<overwrite, mem, disk, si, ri, doiVar, last, digest, run, remote, first, meta, emailOut>>

\* lines 220-278: the digest is written
WriteReport ==
    /\ pc = "report"
    /\ ~prepare_email_file(disk).raised
    /\ digest' = [written |-> TRUE, groups |-> prepare_email_file(disk).groups]
    /\ pc' = "done"
    /\ UNCHANGED <<overwrite, mem, disk, si, ri, doiVar, last, run, remote, first, meta, emailOut>>

Engine ==
    \/ Load
    \/ LoadFails
    \/ SheetNotFound
    \/ MissingHeaders
    \/ BeginSheet
    \/ SkipRow
    \/ EnrichRow
    \/ RowRaises
    \/ SaveRow
    \/ EndSheet
    \/ FinalSave
    \/ ReportLoadFails
    \/ ReportRaises
    \/ WriteReport

Next == Engine

Spec == Init /\ [][Next]_vars

(***************************************************************************)
(* Two invocations of update_xlsx_with_zenodo_links on the same file, the  *)
(* remote services answering every query as they answered it before.       *)
(***************************************************************************)
\* a second sheet without the engine's columns
PlainSheet ==
    [exists |-> TRUE, headers |-> {"TITLE ", "Open Access link", "author_email"},
     rows |-> <<Row(None, TitleA, None, None, None, None, OldEmail, None, None)>>]

\* three numbered rows with titles of their own
TwiceBooks(titles) ==
    {TwoSheets([exists |-> TRUE, headers |-> RequiredHeaders \cup OptionalHeaders,
                rows |-> <<Row(<<"1">>, titles[1], BibDoiA, None, None, None, None, None, None),
                           Row(<<"2">>, titles[2], BibDoiB, None, None, l, None, None, None),
                           Row(<<"3">>, titles[3], b, None, None, None, None, None, None)>>],
               other) :
        l \in {None, OtherLink}, b \in {None, BibPlain}, other \in {AbsentSheet, PlainSheet}}

InitTwice == \E wb \in TwiceBooks(<<TitleA, TitleB, TitleC>>), ow \in BOOLEAN : Start(wb, ow, TRUE, "load")

\* line 398 again: the function is called a second time on the file
SecondRun ==
    /\ run = 1
    /\ pc \in {"done", "raised"}
    /\ run' = 2
    /\ first' = disk
    /\ mem' = disk
    /\ pc' = "load"
    /\ si' = 0
    /\ ri' = 0
    /\ doiVar' = Unbound
    /\ last' = NoLast
    /\ digest' = NoDigest
    /\ UNCHANGED <<overwrite, disk, remote, meta, emailOut>>

\* the file can be opened in both runs
NextTwice ==
    \/ Load \/ SheetNotFound \/ MissingHeaders \/ BeginSheet
    \/ SkipRow \/ EnrichRow \/ RowRaises \/ SaveRow \/ EndSheet \/ FinalSave
    \/ ReportRaises \/ WriteReport
    \/ SecondRun

SpecTwice == InitTwice /\ [][NextTwice]_vars

(***************************************************************************)
(* extract_email_from_ieee_json alone, on any parsed metadata.             *)
(***************************************************************************)
Alessandro == <<"A","l","e","s","s","a","n","d","r","o">>
AnnaMaria == <<"A","n","n","a"," ","M","a","r","i","a">>
DeLuca == <<"D","e"," ","L","u","c","a">>

Names ==
    {<<Maria, Louca>>, <<Thomas, Parisini>>, <<Alessandro, Astolfi>>, <<Maria, Astolfi>>,
     <<AnnaMaria, DeLuca>>}
Affiliations == {<<>>, <<AffOther>>, <<AffOther, AffUcy>>, <<AffName>>}

EmailAuthors ==
    {Author(n[1], n[2], a) : n \in Names, a \in Affiliations}
    \cup {[keys |-> {"affiliation"}, firstName |-> <<>>, lastName |-> <<>>,
           affiliation |-> <<AffOther>>],
          [keys |-> {"firstName", "lastName"}, firstName |-> Thomas, lastName |-> Louca,
           affiliation |-> <<>>]}

Metadatas ==
    {[keys |-> {"title"}, authors |-> <<>>]}
    \cup UNION {{Metadata(as) : as \in [1..n -> EmailAuthors]} : n \in 0..MaxAuthors}

InitEmail ==
    /\ overwrite = FALSE
    /\ disk = TwoSheets(AbsentSheet, AbsentSheet)
    /\ mem = disk
    /\ first = disk
    /\ pc = "email"
    /\ si = 0
    /\ ri = 0
    /\ doiVar = Unbound
    /\ last = NoLast
    /\ digest = NoDigest
    /\ run = 1
    /\ remote = [on |-> FALSE, seen |-> {}]
    /\ meta \in Metadatas
    /\ emailOut = NoOut

\* line 296: email = extract_email_from_ieee_json(json)
ApplyResolver ==
    /\ pc = "email"
    /\ emailOut' = [raised |-> extract_email_from_ieee_json(meta).raised,
                    email |-> extract_email_from_ieee_json(meta).email,
                    applied |-> TRUE]
    /\ pc' = "done"
    /\ UNCHANGED <<overwrite, mem, disk, si, ri, doiVar, last, digest, run, remote, first, meta>>

NextEmail == ApplyResolver

SpecEmail == InitEmail /\ [][NextEmail]_vars

(***************************************************************************)
(* Properties of update_xlsx_with_zenodo_links.  last describes the row    *)
(* body that ran last: the row as it was (pre), the answers it received,   *)
(* and how the body was left.                                              *)
(***************************************************************************)
\* the row of last, as it is in memory now
CurrentRow == RowsOf(mem, last.sheet)[last.row]
\* the body of the row ran past the early skips and was left
BodyLeft == last.kind \in {"save", "raised"}
\* the title search was made and answered with exactly one hit
OneHit ==
    /\ BodyLeft /\ last.titleResp # NoResp
    /\ last.titleResp.reach /\ last.titleResp.status = 200 /\ last.titleResp.total = 1
\* the title search was made and answered with two hits or more
ManyHits ==
    /\ BodyLeft /\ last.titleResp # NoResp
    /\ last.titleResp.reach /\ last.titleResp.status = 200 /\ last.titleResp.total >= 2
\* the title search was made and gave no identifier
TitleFailed == BodyLeft /\ last.titleResp # NoResp /\ ~OneHit
\* the DOI search was made and gave an identifier
DoiHit ==
    /\ last.doiResp # NoResp
    /\ last.doiResp.reach /\ last.doiResp.status = 200 /\ last.doiResp.total > 0
\* the row reached the test of line 120 and passed it
ShortCircuited == last.kind # "none" /\ ~SkipsByNo(last.pre) /\ AllPopulated(last.pre)

Kept(old, new) ==
    /\ Truthy(old.oal) => new.oal = old.oal
    /\ Truthy(old.doi) => new.doi = old.doi
    /\ Truthy(old.lat) => new.lat = old.lat
    /\ Truthy(old.email) => new.email = old.email

\* C1: with force-overwrite off, no step of the run replaces a non-blank
\* open_access_link, doi, link_as_text or author_email of any row, whatever
\* the services answer (as the spec states it)
C1_PopulatedFieldsKept ==
    [][~overwrite =>
         \A s \in 1..Len(sheet_names) : \A i \in 1..Len(RowsOf(mem, s)) :
            Kept(RowsOf(mem, s)[i], RowsOf(mem', s)[i])]_vars

\* C3: a row with open_access_link, doi and link_as_text populated gets no
\* title search and no DOI search, and the email resolver is not called for
\* it either: the row is left as it was and the loop goes to the next row
\* without a save
C3_ShortCircuitLeavesRow ==
    ShortCircuited =>
        /\ last.kind = "skip"
        /\ last.titleResp = NoResp /\ last.doiQuery = None /\ last.doiResp = NoResp
        /\ last.emailLink = None
        /\ CurrentRow = last.pre
        /\ pc # "save"

C3_ShortCircuitedWithBlankEmail ==
    /\ ShortCircuited /\ last.kind = "skip"
    /\ ~Truthy(last.pre.email)
    /\ Contains(Str(last.pre.lat), IeeeMarker)

\* C3 as the spec states it: no search is made for such a row, but the email
\* resolver is called with its link_as_text whenever author_email is blank
C3_ShortCircuitResolvesEmail ==
    ShortCircuited =>
        /\ last.titleResp = NoResp /\ last.doiQuery = None /\ last.doiResp = NoResp
        /\ ~Truthy(last.pre.email) => last.emailLink = last.pre.lat

\* C4: a title search answered with exactly one hit leaves the row with the
\* link of that hit and with the DOI found in the row's own bibliographic
\* data, or the hit's identifier when none is found (as the spec states it)
C4_OneHitSetsLinkAndDoi ==
    OneHit =>
        /\ CurrentRow.oal = ZenodoLink(last.titleResp.hits[1])
        /\ CurrentRow.doi =
              (IF Truthy(extract_doi_from_bibliographic_data(BibOf(last.pre)))
               THEN DoiLink(extract_doi_from_bibliographic_data(BibOf(last.pre)))
               ELSE DoiLink(ToStr(last.titleResp.hits[1])))

\* C5: a title search answered with two hits or more never sets the link
\* from its hits: the link changes only to the record the DOI search gave
C5_ManyHitsNeverSetLink ==
    ManyHits =>
        /\ CurrentRow.oal # last.pre.oal =>
              DoiHit /\ CurrentRow.oal = ZenodoLink(last.doiResp.hits[1])
        /\ \A k \in 1..Len(last.titleResp.hits) :
              CurrentRow.oal # ZenodoLink(last.titleResp.hits[k])

C5_ManyHitsThenDoiHit == ManyHits /\ DoiHit /\ CurrentRow.oal # last.pre.oal

\* C6: an unreachable service is an answer of zero hits: no exception leaves
\* the row whose title search or DOI search was not answered (as the spec
\* states it)
C6_UnreachableIsNoMatch ==
    (\/ last.titleResp # NoResp /\ ~last.titleResp.reach
     \/ last.doiResp # NoResp /\ ~last.doiResp.reach)
    => last.kind # "raised" /\ pc # "raised"

\* C8: a title search that gave no identifier, for whatever reason, is
\* followed by the DOI search of the DOI found in the bibliographic data,
\* which sets the doi and, when it gives a record, the link; without such a
\* DOI both fields stay as they were (as the spec states it)
C8_FallbackToDoiSearch ==
    TitleFailed =>
        IF Truthy(extract_doi_from_bibliographic_data(BibOf(last.pre)))
        THEN /\ last.doiQuery = extract_doi_from_bibliographic_data(BibOf(last.pre))
             /\ CurrentRow.doi = DoiLink(last.doiQuery)
             /\ CurrentRow.oal = (IF DoiHit THEN ZenodoLink(last.doiResp.hits[1])
                                  ELSE last.pre.oal)
        ELSE /\ last.doiQuery = None
             /\ CurrentRow.oal = last.pre.oal
             /\ CurrentRow.doi = last.pre.doi

\* the rows whose cells in memory are not those of the file
Unsaved ==
    {sr \in UNION {{<<s, i>> : i \in 1..Len(RowsOf(mem, s))} : s \in 1..Len(sheet_names)} :
        RowsOf(mem, sr[1])[sr[2]] # RowsOf(disk, sr[1])[sr[2]]}
\* the sheets whose header cells in memory are not those of the file
UnsavedHeaders ==
    {s \in 1..Len(sheet_names) : SheetOf(mem, s).headers # SheetOf(disk, s).headers}

\* C10: the cells of the data rows in memory and in the file differ at
\* most in the row whose body has run to the save or has raised, and not at
\* all between rows; the header cells created for a sheet may stay unsaved
\* while its rows are processed; once the final save is done the file is
\* the workbook in memory
C10_OnlyCurrentRowUnsaved ==
    /\ Unsaved \subseteq (IF pc \in {"save", "raised"} /\ BodyLeft
                          THEN {<<last.sheet, last.row>>} ELSE {})
    /\ \A s \in UnsavedHeaders :
          SheetOf(mem, s).headers \ SheetOf(disk, s).headers \subseteq OptionalHeaders
    /\ pc \in {"report", "done"} => mem = disk

C10_HeadersUnsavedAtSecondRow ==
    /\ pc = "save" /\ ri >= 2
    /\ Unsaved = {<<si, ri>>}
    /\ si \in UnsavedHeaders

\* C10 as the spec states it: at every point of the run the file differs
\* from the workbook in memory at most by the cells of the row being
\* processed
C10_FileBehindByOneRow ==
    /\ Unsaved \subseteq (IF pc \in {"save", "raised"} /\ BodyLeft
                          THEN {<<last.sheet, last.row>>} ELSE {})
    /\ UnsavedHeaders = {}

(***************************************************************************)
(* Properties of prepare_email_file.                                       *)
(***************************************************************************)
\* a cell without text: empty, or white space only
Blank(v) == v = None \/ \A i \in 1..Len(v) : v[i] \in Whitespace
\* <<s, i>> comes before <<t, j>> in the scan of the workbook
Before(a, b) == a[1] < b[1] \/ (a[1] = b[1] /\ a[2] < b[2])
\* the places of the digest where row i of sheet s is listed
PlacesOf(groups, s, i) ==
    {gk \in UNION {{<<g, k>> : k \in 1..Len(groups[g].papers)} : g \in 1..Len(groups)} :
        groups[gk[1]].papers[gk[2]].src = <<s, i>>}
\* the report was run on the file and did not fail to load it
ReportRan == digest.written \/ (pc = "raised" /\ last.kind # "raised")

\* the rows of the file with a blank link and an email are each listed once,
\* under their email, and no other row is listed
ListsOpenRows(groups) ==
    \A s \in 1..Len(sheet_names) : \A i \in 1..Len(RowsOf(disk, s)) :
       IF Blank(RowsOf(disk, s)[i].oal) /\ ~Blank(RowsOf(disk, s)[i].email)
       THEN \E gk \in PlacesOf(groups, s, i) :
               /\ PlacesOf(groups, s, i) = {gk}
               /\ groups[gk[1]].author = Strip(RowsOf(disk, s)[i].email)
       ELSE PlacesOf(groups, s, i) = {}

\* one group for each email, the groups in the order of their first rows and
\* the papers of a group in the order of their rows
InFirstSeenOrder(groups) ==
    /\ \A g, h \in 1..Len(groups) :
          g < h => /\ groups[g].author # groups[h].author
                   /\ Before(groups[g].papers[1].src, groups[h].papers[1].src)
    /\ \A g \in 1..Len(groups) : \A k, l \in 1..Len(groups[g].papers) :
          k < l => Before(groups[g].papers[k].src, groups[g].papers[l].src)

\* C7: once the sheets are processed and the report has run on the file, the
\* digest lists exactly the rows with a blank open_access_link and an email,
\* each under its email, the groups in first-seen order (as the spec states
\* it)
C7_DigestListsOpenRows ==
    ReportRan => ListsOpenRows(digest.groups) /\ InFirstSeenOrder(digest.groups)

(***************************************************************************)
(* Properties of two runs.                                                 *)
(***************************************************************************)
\* C2: during the second run on the same file, the services answering as
\* before, the file stays what the first run left (as the spec states it)
C2_SecondRunChangesNothing == run = 2 => disk = first /\ (pc # "raised" => mem = first)

(***************************************************************************)
(* Properties of extract_email_from_ieee_json.                             *)
(***************************************************************************)
\* the hardcoded addresses and the full names they belong to
ExceptionTable ==
    {[firstName |-> Thomas, lastName |-> Parisini, email |-> ParisiniEmail],
     [firstName |-> Alessandro, lastName |-> Astolfi, email |-> AstolfiEmail]}

\* the table entries one of the authors matches on first and last name
Matched(authors) ==
    {e \in ExceptionTable :
        \E i \in 1..Len(authors) :
            authors[i].firstName = e.firstName /\ authors[i].lastName = e.lastName}

\* C9: the email returned is that of the first author with the domain marker
\* in an affiliation; else that of the first author with the institution's
\* name in an affiliation, from the first tokens of the names; else the
\* address of a table entry an author matches on first and last name; else
\* none (as the spec states it)
C9_PrecedenceWithExactTable ==
    (emailOut.applied /\ ~emailOut.raised) =>
        LET authors == AuthorsOf(meta)
            d == FirstAffiliated(authors, DomainMarker)
            u == FirstAffiliated(authors, InstitutionName)
        IN  IF d > 0
            THEN emailOut.email = Lower(authors[d].lastName) \o <<".">>
                                  \o Lower(authors[d].firstName) \o AtDomain
            ELSE IF u > 0
            THEN emailOut.email = Lower(FirstToken(authors[u].lastName)) \o <<".">>
                                  \o Lower(FirstToken(authors[u].firstName)) \o AtDomain
            ELSE IF Matched(authors) = {} THEN emailOut.email = None
            ELSE emailOut.email \in {e.email : e \in Matched(authors)}

(***************************************************************************)
(* Properties of the call of extract_ucy_author_email in the row body.     *)
(***************************************************************************)
\* the resolver was called for the row of last
ResolverCalled == BodyLeft /\ last.emailLink # None
\* the page requested gave no metadata: the link is not the publisher's, or
\* the request failed, or the marker or the parse did
NoMetadata ==
    \/ last.page = NoResp
    \/ ~last.page.reach \/ last.page.status # 200
    \/ ~last.page.marker \/ ~last.page.parses
\* no author of the metadata carries the domain marker or the institution's
\* name together with both names, non-empty, and none is in the table
NoAuthorResolves ==
    /\ ~NoMetadata
    /\ \A i \in 1..Len(AuthorsOf(last.page.json)) :
          LET author == AuthorsOf(last.page.json)[i]
          IN  \/ ~Named(author)
              \/ FirstToken(author.firstName) = <<>> \/ FirstToken(author.lastName) = <<>>
              \/ /\ \A k \in 1..Len(AffiliationsOf(author)) :
                       /\ ~Contains(AffiliationsOf(author)[k], DomainMarker)
                       /\ ~Contains(AffiliationsOf(author)[k], InstitutionName)
                 /\ author.lastName \notin {Parisini, Astolfi}

\* C11: whatever the link and the page fetched, a resolver that finds no
\* email raises nothing: author_email stays as it was and the row goes on to
\* its save (as the spec states it)
C11_ResolverFailureNotFatal ==
    (ResolverCalled /\ (NoMetadata \/ NoAuthorResolves)) =>
        /\ last.kind = "save" /\ pc = "save"
        /\ CurrentRow.email = last.pre.email

====
